---- MODULE Spec2Model ----
(***************************************************************************)
(* The connection-lifecycle and command-dispatch core of                   *)
(* custom_components/hilighting_ble/hilightingble.py: one                  *)
(* HILIGHTINGInstance, its retry decorator, its connect lock, its idle     *)
(* timer and the transport it talks to.  Every action is one atomic        *)
(* segment of a coroutine or callback: the code between two suspension     *)
(* points of the asyncio event loop.                                       *)
(***************************************************************************)
EXTENDS Integers, Sequences, FiniteSets, TLC

\* ---------------------------------------------------------------- bounds
MaxCmds == 2          \* command coroutines that may be in flight together
MaxDisc == 1          \* _execute_disconnect tasks that may exist together
MaxTimers == 2        \* TimerHandle objects that may be scheduled together
MaxEstablish == 2     \* establish_connection calls counted (the count saturates here)

\* ------------------------------------------------------- program constants
DEFAULT_ATTEMPTS == 3
DefaultDelay == 30     \* __init__: delay: int = 30
EFFECT_OFF == "off"
EFFECT_MAP == [n \in {"Effect 0", "Effect 1", "Effect 2", "Effect 3", "Effect 4",
                      "Effect 5", "Effect 6", "Effect 7", "Effect 8", "Effect 9"} |->
                 CASE n = "Effect 0" -> 0 [] n = "Effect 1" -> 1 [] n = "Effect 2" -> 2
                   [] n = "Effect 3" -> 3 [] n = "Effect 4" -> 4 [] n = "Effect 5" -> 5
                   [] n = "Effect 6" -> 6 [] n = "Effect 7" -> 7 [] n = "Effect 8" -> 8
                   [] OTHER -> 9]

\* exceptions the transport raises: BleakNotFoundError, BleakDBusError
\* (RETRY_BACKOFF_EXCEPTIONS) and the other BLEAK_RETRY_EXCEPTIONS
RetryErrors == {"BleakDBusError", "BleakError"}
ConnectErrors == RetryErrors \cup {"BleakNotFoundError"}

\* what a client's service catalog can hold: all four characteristics, the
\* write characteristic but not all of the others, or no write characteristic
Catalogs == {"full", "writeonly", "nowrite"}

\* ------------------------------------------------------------ the inputs
Colors == {<<10, 20, 30>>}
Brightnesses == {200}
EffectNames == {"Effect 3", "Rainbow"}
Speeds == {50}
Cmd(k, rgb, num, name) == [kind |-> k, rgb |-> rgb, num |-> num, name |-> name]
Commands ==
    {Cmd("turn_on", <<>>, 0, ""), Cmd("turn_off", <<>>, 0, "")}
    \cup {Cmd("set_rgb_color", c, 0, "") : c \in Colors}
    \cup {Cmd("set_brightness", <<>>, b, "") : b \in Brightnesses}
    \cup {Cmd("set_effect", <<>>, 0, e) : e \in EffectNames}
    \cup {Cmd("set_effect_speed", <<>>, s, "") : s \in Speeds}
NoCommand == Cmd("none", <<>>, 0, "")

\* the callers of one behaviour use one group of commands; each group holds the
\* commands that touch the same reported fields (power; color and effect;
\* brightness and effect speed)
Menus == {{"turn_on", "turn_off"}, {"set_rgb_color", "set_effect"},
          {"set_brightness", "set_effect_speed"}}

Tasks == 1 .. MaxCmds                         \* command coroutines
DTasks == (MaxCmds + 1) .. (MaxCmds + MaxDisc) \* _execute_disconnect tasks
TimerIds == 1 .. MaxTimers

VARIABLES
    \* fields of HILIGHTINGInstance
    _delay, _client, _write_uuid, _expected_disconnect, _disconnect_timer,
    _is_on, _rgb_color, _brightness, _effect,
    \* asyncio.Lock _connect_lock: its holder (0: unlocked) and its FIFO of waiters
    lockHolder, lockQueue,
    \* the event loop and the transport
    timers,      \* TimerHandles scheduled by call_later, neither fired nor cancelled
    newClient,   \* the local `client` of the slow path, before it is stored
    establishCalls,  \* calls of establish_connection so far (saturating)
    menu,        \* the kinds of command the callers of this behaviour issue
    \* the command coroutines: for each, its position (pc), its arguments (cmd), the
    \* packet it built, the decorator's loop variable (attempt), and the history of
    \* the call so far (bodyRuns, sleeps, fails, acked, result, err)
    call,
    \* the _execute_disconnect tasks: the position of each
    dpc

instVars == <<_delay, _client, _write_uuid, _expected_disconnect, _disconnect_timer>>
reported == <<_is_on, _rgb_color, _brightness, _effect>>
lockVars == <<lockHolder, lockQueue>>
envVars == <<timers, newClient, establishCalls, menu>>
vars == <<instVars, reported, lockVars, envVars, call, dpc>>

Min(S) == CHOOSE x \in S : \A y \in S : x <= y

\* ------------------------------------------------------------ the packets
\* min(int(brightness * 0.06), 0x0f)
BrightnessByte(b) == IF (b * 6) \div 100 < 15 THEN (b * 6) \div 100 ELSE 15

\* int(speed * 2.55) in IEEE doubles: 2.55 is stored slightly below 2.55, so the
\* product truncates to floor(speed * 255 / 100), except that 100 * 2.55 is
\* 254.99999999999997 and truncates to 254
SpeedScaled(s) == IF s = 100 THEN 254 ELSE (s * 255) \div 100

\* min(max(int(speed * 2.55), 0), 255)
SpeedByte(s) ==
    LET v == SpeedScaled(s)
        lo == IF v > 0 THEN v ELSE 0
    IN  IF lo < 255 THEN lo ELSE 255

\* the bytearray each command hands to _write
Packet(c) ==
    CASE c.kind = "turn_on" -> <<85, 1, 2, 1>>
      [] c.kind = "turn_off" -> <<85, 1, 2, 0>>
      [] c.kind = "set_rgb_color" -> <<85, 7, 1, c.rgb[1], c.rgb[2], c.rgb[3]>>
      [] c.kind = "set_brightness" -> <<85, 3, 1, 255, BrightnessByte(c.num)>>
      [] c.kind = "set_effect" -> <<85, 4, 1, EFFECT_MAP[c.name]>>
      [] c.kind = "set_effect_speed" -> <<85, 4, 4, SpeedByte(c.num)>>
      [] OTHER -> <<>>

\* set_effect: `if effect not in EFFECT_MAP`
UnknownEffect(c) == c.kind = "set_effect" /\ c.name \notin DOMAIN EFFECT_MAP

\* --------------------------------------------------------------- the state
FreshCall ==
    [pc |-> "idle", cmd |-> NoCommand, packet |-> <<>>, attempt |-> 0,
     bodyRuns |-> 0, sleeps |-> 0, fails |-> 0,
     acked |-> FALSE, result |-> "none", err |-> "none"]

Init ==
    /\ _delay \in {0, DefaultDelay}
    /\ _client = "None"
    /\ _write_uuid = "None"
    /\ _expected_disconnect = FALSE
    /\ _disconnect_timer = 0
    /\ _is_on = FALSE
    /\ _rgb_color = <<255, 255, 255>>
    /\ _brightness = 255
    /\ _effect = EFFECT_OFF
    /\ lockHolder = 0
    /\ lockQueue = <<>>
    /\ timers = {}
    /\ newClient = "None"
    /\ establishCalls = 0
    /\ menu \in Menus
    /\ call = [t \in Tasks |-> FreshCall]
    /\ dpc = [d \in DTasks |-> "free"]

\* ------------------------------------------------ helpers of the instance
\* a variant that tests the handle only, not is_connected
IsConnected_HandleOnly(cl) == cl # "None"

\* `self._client and self._client.is_connected`
IsConnected(cl) == cl = "Live"

\* a variant whose cancel() leaves the callback scheduled
CancelTimer_Ineffective(ts, h) == ts

\* TimerHandle.cancel() on the handle self._disconnect_timer refers to
CancelTimer(ts, h) == ts \ {h}

\* a variant that arms the timer whatever the delay
ResetDisconnectTimer_AlwaysArm ==
    LET remaining == IF _disconnect_timer # 0
                       THEN CancelTimer(timers, _disconnect_timer) ELSE timers
    IN  /\ _expected_disconnect' = FALSE
        /\ TimerIds \ remaining # {}
        /\ _disconnect_timer' = Min(TimerIds \ remaining)
        /\ timers' = remaining \cup {Min(TimerIds \ remaining)}

\* _reset_disconnect_timer: cancel the referenced timer, clear the flag, and arm
\* a new timer when the delay is not 0
ResetDisconnectTimer ==
    LET remaining == IF _disconnect_timer # 0
                       THEN CancelTimer(timers, _disconnect_timer) ELSE timers
    IN  /\ _expected_disconnect' = FALSE
        /\ IF _delay # 0
             THEN /\ TimerIds \ remaining # {}
                  /\ _disconnect_timer' = Min(TimerIds \ remaining)
                  /\ timers' = remaining \cup {Min(TimerIds \ remaining)}
             ELSE /\ timers' = remaining
                  /\ UNCHANGED _disconnect_timer

\* _disconnected(client): the callback only logs, by the flag at that moment
DisconnectedLog == IF _expected_disconnect THEN "expected" ELSE "unexpected"

\* _resolve_characteristics: the write characteristic found in the catalog, and
\* whether all four were found
ResolveWrite(cat) == IF cat = "nowrite" THEN "None" ELSE "Char"
ResolveAll(cat) == cat = "full"

\* asyncio.Lock.release(): the lock goes to the first waiter
ReleaseLock ==
    IF lockQueue = <<>>
      THEN lockHolder' = 0 /\ lockQueue' = <<>>
      ELSE lockHolder' = Head(lockQueue) /\ lockQueue' = Tail(lockQueue)

\* ----------------------------------------------------- the retry decorator
\* a variant that gives up one attempt early
OnError_OffByOne(c, e) ==
    IF e = "BleakNotFoundError"
      THEN [c EXCEPT !.pc = "idle", !.result = "raised", !.err = e]
      ELSE IF c.attempt = DEFAULT_ATTEMPTS - 2
             THEN [c EXCEPT !.pc = "idle", !.result = "raised", !.err = e,
                            !.fails = @ + 1]
             ELSE [c EXCEPT !.pc = "sleeping", !.err = e, !.fails = @ + 1,
                            !.sleeps = @ + 1]

\* a variant without the `except BleakNotFoundError: raise` clause
OnError_RetryNotFound(c, e) ==
    IF c.attempt = DEFAULT_ATTEMPTS - 1
      THEN [c EXCEPT !.pc = "idle", !.result = "raised", !.err = e, !.fails = @ + 1]
      ELSE [c EXCEPT !.pc = "sleeping", !.err = e, !.fails = @ + 1, !.sleeps = @ + 1]

\* a variant that does not re-raise on the final attempt
OnError_NoFinalRaise(c, e) ==
    IF e = "BleakNotFoundError"
      THEN [c EXCEPT !.pc = "idle", !.result = "raised", !.err = e]
      ELSE [c EXCEPT !.pc = "sleeping", !.err = e, !.fails = @ + 1, !.sleeps = @ + 1]

\* the except clauses of _async_wrap for an exception e raised by the body
OnError(c, e) ==
    IF e = "BleakNotFoundError"
      THEN [c EXCEPT !.pc = "idle", !.result = "raised", !.err = e]
      ELSE IF c.attempt = DEFAULT_ATTEMPTS - 1
             THEN [c EXCEPT !.pc = "idle", !.result = "raised", !.err = e,
                            !.fails = @ + 1]
             ELSE [c EXCEPT !.pc = "sleeping", !.err = e, !.fails = @ + 1,
                            !.sleeps = @ + 1]

\* _write after _ensure_connected returned: write_gatt_char on the stored
\* client cl with the characteristic wu; on an absent handle the attribute lookup
\* raises AttributeError (one of BLEAK_EXCEPTIONS); the transport refuses at once a
\* missing characteristic or a client that is not connected, otherwise the write
\* is in flight
StartWrite(c, cl, wu) ==
    IF cl = "None"
      THEN OnError(c, "AttributeError")
      ELSE IF wu = "None" \/ cl # "Live"
             THEN OnError(c, "BleakError")
             ELSE [c EXCEPT !.pc = "writing"]

\* a variant in which set_rgb_color leaves the effect alone
AfterWrite_KeepEffect(c) ==
    /\ _is_on' = CASE c.kind = "turn_on" -> TRUE
                   [] c.kind = "turn_off" -> FALSE
                   [] OTHER -> _is_on
    /\ _effect' = IF c.kind = "set_effect" THEN c.name ELSE _effect
    /\ UNCHANGED <<_rgb_color, _brightness>>

\* the statements of a command after its write returned
AfterWrite(c) ==
    /\ _is_on' = CASE c.kind = "turn_on" -> TRUE
                   [] c.kind = "turn_off" -> FALSE
                   [] OTHER -> _is_on
    /\ _effect' = CASE c.kind = "set_rgb_color" -> EFFECT_OFF
                    [] c.kind = "set_effect" -> c.name
                    [] OTHER -> _effect
    /\ UNCHANGED <<_rgb_color, _brightness>>

\* the statements of a command before its write
BeforeWrite(c) ==
    /\ _rgb_color' = IF c.kind = "set_rgb_color" THEN c.rgb ELSE _rgb_color
    /\ _brightness' = IF c.kind = "set_brightness" THEN c.num ELSE _brightness
    /\ UNCHANGED <<_is_on, _effect>>

\* `await establish_connection(...)` is called
CallEstablish ==
    establishCalls' = IF establishCalls < MaxEstablish
                        THEN establishCalls + 1 ELSE establishCalls

\* a variant whose slow path does not take the connect lock
EnsureConnected_NoLock(t, c) ==
    IF IsConnected(_client)
      THEN /\ ResetDisconnectTimer
           /\ call' = [call EXCEPT ![t] = StartWrite(c, _client, _write_uuid)]
           /\ UNCHANGED <<_delay, _client, _write_uuid, lockVars, newClient,
                          establishCalls, menu, dpc>>
      ELSE /\ lockHolder' = t
           /\ UNCHANGED lockQueue
           /\ CallEstablish
           /\ call' = [call EXCEPT ![t] = [c EXCEPT !.pc = "connecting"]]
           /\ UNCHANGED <<instVars, timers, newClient, menu, dpc>>

\* _ensure_connected up to its first suspension point, for the call record c of
\* task t: the fast path, or the slow path up to the lock or establish_connection
EnsureConnected(t, c) ==
    IF IsConnected(_client)
      THEN /\ ResetDisconnectTimer
           /\ call' = [call EXCEPT ![t] = StartWrite(c, _client, _write_uuid)]
           /\ UNCHANGED <<_delay, _client, _write_uuid, lockVars, newClient,
                          establishCalls, menu, dpc>>
      ELSE /\ IF lockHolder = 0
                THEN /\ lockHolder' = t
                     /\ UNCHANGED lockQueue
                     /\ CallEstablish
                     /\ call' = [call EXCEPT ![t] = [c EXCEPT !.pc = "connecting"]]
                ELSE /\ lockQueue' = Append(lockQueue, t)
                     /\ UNCHANGED <<lockHolder, establishCalls>>
                     /\ call' = [call EXCEPT ![t] = [c EXCEPT !.pc = "lockwait"]]
           /\ UNCHANGED <<instVars, timers, newClient, menu, dpc>>

\* a variant of set_effect that looks the name up only after connecting
RunBody_CheckLate(t, c) ==
    /\ BeforeWrite(c.cmd)
    /\ EnsureConnected(t, [c EXCEPT !.packet =
                              IF UnknownEffect(c.cmd) THEN <<>> ELSE Packet(c.cmd)])

\* one run of the decorated body, up to its first suspension point
RunBody(t, c) ==
    IF UnknownEffect(c.cmd)
      THEN /\ call' = [call EXCEPT ![t] = [c EXCEPT !.pc = "idle", !.result = "returned"]]
           /\ UNCHANGED <<instVars, reported, lockVars, envVars, dpc>>
      ELSE /\ BeforeWrite(c.cmd)
           /\ EnsureConnected(t, [c EXCEPT !.packet = Packet(c.cmd)])

\* ------------------------------------------------------------ the commands
\* a caller awaits command k: the decorator's first attempt
Issue(t, k) ==
    /\ call[t].pc = "idle"
    /\ k.kind \in menu
    /\ RunBody(t, [FreshCall EXCEPT !.cmd = k, !.bodyRuns = 1])

\* asyncio.sleep(BLEAK_BACKOFF_TIME) is over: the next attempt
Wake(t) ==
    /\ call[t].pc = "sleeping"
    /\ IF call[t].attempt + 1 < DEFAULT_ATTEMPTS
         THEN RunBody(t, [call[t] EXCEPT !.attempt = @ + 1, !.bodyRuns = @ + 1])
         ELSE \* range(DEFAULT_ATTEMPTS) is exhausted: _async_wrap returns None
              /\ call' = [call EXCEPT ![t] = [@ EXCEPT !.pc = "idle",
                                                       !.result = "returned"]]
              /\ UNCHANGED <<instVars, reported, lockVars, envVars, dpc>>

\* a variant without the re-check inside the lock
LockAcquired_NoRecheck(t) ==
    /\ call[t].pc = "lockwait"
    /\ lockHolder = t
    /\ call' = [call EXCEPT ![t].pc = "connecting"]
    /\ CallEstablish
    /\ UNCHANGED <<instVars, reported, lockVars, timers, newClient, menu, dpc>>

\* a variant whose waiter takes the session of the previous holder for granted
LockAcquired_TrustHolder(t) ==
    /\ call[t].pc = "lockwait"
    /\ lockHolder = t
    /\ ReleaseLock
    /\ call' = [call EXCEPT ![t] = StartWrite(@, _client, _write_uuid)]
    /\ UNCHANGED <<instVars, reported, timers, newClient, establishCalls, menu, dpc>>

\* the waiter got the connect lock: the re-check inside the lock
LockAcquired(t) ==
    /\ call[t].pc = "lockwait"
    /\ lockHolder = t
    /\ UNCHANGED reported
    /\ IF IsConnected(_client)
         THEN /\ ResetDisconnectTimer
              /\ ReleaseLock
              /\ call' = [call EXCEPT ![t] = StartWrite(@, _client, _write_uuid)]
              /\ UNCHANGED <<_delay, _client, _write_uuid, newClient,
                             establishCalls, menu, dpc>>
         ELSE /\ call' = [call EXCEPT ![t].pc = "connecting"]
              /\ CallEstablish
              /\ UNCHANGED <<instVars, lockVars, timers, newClient, menu, dpc>>

\* establish_connection returned a client whose cached catalog is cat
EstablishOk(t, cat) ==
    /\ call[t].pc = "connecting"
    /\ UNCHANGED <<_delay, reported, establishCalls, menu, dpc>>
    /\ _write_uuid' = ResolveWrite(cat)
    /\ IF ResolveAll(cat)
         THEN /\ _client' = "Live"
              /\ newClient' = "None"
              /\ ResetDisconnectTimer
              /\ ReleaseLock
              /\ call' = [call EXCEPT ![t] = StartWrite(@, "Live", ResolveWrite(cat))]
         ELSE /\ newClient' = "Live"
              /\ call' = [call EXCEPT ![t].pc = "getservices"]
              /\ UNCHANGED <<_client, _expected_disconnect, _disconnect_timer,
                             timers, lockVars>>

\* establish_connection raised e: the lock is released, the decorator decides
EstablishFail(t, e) ==
    /\ call[t].pc = "connecting"
    /\ ReleaseLock
    /\ call' = [call EXCEPT ![t] = OnError(@, e)]
    /\ UNCHANGED <<instVars, reported, envVars, dpc>>

\* client.get_services() returned the fresh catalog cat
GetServicesOk(t, cat) ==
    /\ call[t].pc = "getservices"
    /\ _write_uuid' = ResolveWrite(cat)
    /\ _client' = newClient
    /\ newClient' = "None"
    /\ ResetDisconnectTimer
    /\ ReleaseLock
    /\ call' = [call EXCEPT ![t] = StartWrite(@, newClient, ResolveWrite(cat))]
    /\ UNCHANGED <<_delay, reported, establishCalls, menu, dpc>>

\* client.get_services() raised e: the new client is left unstored (what becomes
\* of it afterwards is not followed)
GetServicesFail(t, e) ==
    /\ call[t].pc = "getservices"
    /\ newClient' = "None"
    /\ ReleaseLock
    /\ call' = [call EXCEPT ![t] = OnError(@, e)]
    /\ UNCHANGED <<instVars, reported, timers, establishCalls, menu, dpc>>

\* write_gatt_char returned
WriteOk(t) ==
    /\ call[t].pc = "writing"
    /\ AfterWrite(call[t].cmd)
    /\ call' = [call EXCEPT ![t] = [@ EXCEPT !.pc = "idle", !.acked = TRUE,
                                              !.result = "returned"]]
    /\ UNCHANGED <<instVars, lockVars, envVars, dpc>>

\* write_gatt_char raised e
WriteFail(t, e) ==
    /\ call[t].pc = "writing"
    /\ call' = [call EXCEPT ![t] = OnError(@, e)]
    /\ UNCHANGED <<instVars, reported, lockVars, envVars, dpc>>

\* --------------------------------------------------- the idle disconnect
\* the body of _execute_disconnect once task d holds the lock, up to
\* `await self._client.disconnect()` or to the end
ExecuteDisconnectBody(d) ==
    IF IsConnected(_client)
      THEN /\ _expected_disconnect' = TRUE
           /\ dpc' = [dpc EXCEPT ![d] = "disconnecting"]
           /\ lockHolder' = d
           /\ UNCHANGED <<_client, _write_uuid, lockQueue>>
      ELSE /\ _client' = "None"
           /\ _write_uuid' = "None"
           /\ dpc' = [dpc EXCEPT ![d] = "free"]
           /\ ReleaseLock
           /\ UNCHANGED _expected_disconnect

\* the timer h fires: _disconnect() forgets the handle and creates the task
TimerFire(h) ==
    /\ h \in timers
    /\ \E d \in DTasks : dpc[d] = "free"
    /\ timers' = timers \ {h}
    /\ _disconnect_timer' = 0
    /\ dpc' = [dpc EXCEPT ![Min({d \in DTasks : dpc[d] = "free"})] = "created"]
    /\ UNCHANGED <<_delay, _client, _write_uuid, _expected_disconnect, reported,
                   lockVars, newClient, establishCalls, menu, call>>

\* the task created by _disconnect starts: it takes the lock or waits for it
DisconnectStart(d) ==
    /\ dpc[d] = "created"
    /\ IF lockHolder = 0
         THEN ExecuteDisconnectBody(d)
         ELSE /\ lockQueue' = Append(lockQueue, d)
              /\ dpc' = [dpc EXCEPT ![d] = "lockwait"]
              /\ UNCHANGED <<lockHolder, _client, _write_uuid, _expected_disconnect>>
    /\ UNCHANGED <<_delay, _disconnect_timer, reported, envVars, call>>

\* the waiting task got the lock
DisconnectLockAcquired(d) ==
    /\ dpc[d] = "lockwait"
    /\ lockHolder = d
    /\ ExecuteDisconnectBody(d)
    /\ UNCHANGED <<_delay, _disconnect_timer, reported, envVars, call>>

\* during client.disconnect(): the session ends and the transport calls
\* _disconnected, which logs by the flag
DisconnectNotify(d) ==
    /\ dpc[d] = "disconnecting"
    /\ _client = "Live"
    /\ _client' = "Dead"
    /\ UNCHANGED <<_delay, _write_uuid, _expected_disconnect, _disconnect_timer,
                   reported, lockVars, envVars, call, dpc>>

\* client.disconnect() returned: the rest of _execute_disconnect
DisconnectReturn(d) ==
    /\ dpc[d] = "disconnecting"
    /\ _client = "Dead"
    /\ _client' = "None"
    /\ _write_uuid' = "None"
    /\ dpc' = [dpc EXCEPT ![d] = "free"]
    /\ ReleaseLock
    /\ UNCHANGED <<_delay, _expected_disconnect, _disconnect_timer, reported,
                   envVars, call>>

\* client.disconnect() raised: the exception leaves `async with`, which releases
\* the lock; the statements after the await do not run and the task ends with
\* the exception, so the handle, the characteristic and the flag stay as they are
DisconnectFail(d) ==
    /\ dpc[d] = "disconnecting"
    /\ dpc' = [dpc EXCEPT ![d] = "free"]
    /\ ReleaseLock
    /\ UNCHANGED <<instVars, reported, envVars, call>>

\* ------------------------------------------------------------ the transport
\* the transport loses the stored session by itself and calls _disconnected
Drop ==
    /\ _client = "Live"
    /\ \A d \in DTasks : dpc[d] # "disconnecting"
    /\ _client' = "Dead"
    /\ UNCHANGED <<_delay, _write_uuid, _expected_disconnect, _disconnect_timer,
                   reported, lockVars, envVars, call, dpc>>

\* the transport loses the session the slow path has not stored yet
NewClientDrop ==
    /\ newClient = "Live"
    /\ newClient' = "Dead"
    /\ UNCHANGED <<instVars, reported, lockVars, timers, establishCalls, menu,
                   call, dpc>>

\* ------------------------------------------------------- the specification
Next ==
    \/ \E t \in Tasks, k \in Commands : Issue(t, k)
    \/ \E t \in Tasks : Wake(t)
    \/ \E t \in Tasks : LockAcquired(t)
    \/ \E t \in Tasks, cat \in Catalogs : EstablishOk(t, cat)
    \/ \E t \in Tasks, e \in ConnectErrors : EstablishFail(t, e)
    \/ \E t \in Tasks, cat \in Catalogs : GetServicesOk(t, cat)
    \/ \E t \in Tasks, e \in RetryErrors : GetServicesFail(t, e)
    \/ \E t \in Tasks : WriteOk(t)
    \/ \E t \in Tasks, e \in RetryErrors : WriteFail(t, e)
    \/ \E h \in TimerIds : TimerFire(h)
    \/ \E d \in DTasks : DisconnectStart(d)
    \/ \E d \in DTasks : DisconnectLockAcquired(d)
    \/ \E d \in DTasks : DisconnectNotify(d)
    \/ \E d \in DTasks : DisconnectReturn(d)
    \/ \E d \in DTasks : DisconnectFail(d)
    \/ Drop
    \/ NewClientDrop

Spec == Init /\ [][Next]_vars

\* A burst: commands are issued only while the link is disconnected, connection
\* establishment succeeds and the session stays connected (no drop, no idle
\* disconnect); writes may still fail and be retried.
IssueDisconnected(t, k) == ~IsConnected(_client) /\ Issue(t, k)

NextBurst ==
    \/ \E t \in Tasks, k \in Commands : IssueDisconnected(t, k)
    \/ \E t \in Tasks : Wake(t)
    \/ \E t \in Tasks : LockAcquired(t)
    \/ \E t \in Tasks, cat \in Catalogs : EstablishOk(t, cat)
    \/ \E t \in Tasks, cat \in Catalogs : GetServicesOk(t, cat)
    \/ \E t \in Tasks : WriteOk(t)
    \/ \E t \in Tasks, e \in RetryErrors : WriteFail(t, e)

SpecBurst == Init /\ [][NextBurst]_vars

\* The speed scaling alone: one caller issues set_effect_speed with every speed
\* of 0..100 against a link that connects and acknowledges the write.
SpeedInputs == 0 .. 100
InitSpeed == Init /\ _delay = 0 /\ menu = {"set_brightness", "set_effect_speed"}
IssueSpeed(s) == Issue(Min(Tasks), Cmd("set_effect_speed", <<>>, s, ""))

NextSpeed ==
    \/ \E s \in SpeedInputs : IssueSpeed(s)
    \/ \E t \in Tasks : EstablishOk(t, "full")
    \/ \E t \in Tasks : WriteOk(t)

SpecSpeed == InitSpeed /\ [][NextSpeed]_vars

\* The event loop runs every callback that is due and every task that is ready,
\* and the transport completes a disconnect it was asked for: an armed timer
\* fires, a created disconnect task starts, a waiter that was handed the lock
\* goes on, the session ends and disconnect() returns unless it raises first.
\* Nothing forces a caller to issue a command.
InitFair == Init /\ _delay = DefaultDelay /\ menu = {"turn_on", "turn_off"}
FairSpec ==
    /\ InitFair
    /\ [][Next]_vars
    /\ WF_vars(\E h \in TimerIds : TimerFire(h))
    /\ WF_vars(\E d \in DTasks : DisconnectStart(d))
    /\ WF_vars(\E d \in DTasks : DisconnectLockAcquired(d))
    /\ WF_vars(\E d \in DTasks : DisconnectNotify(d))
    /\ WF_vars(\E d \in DTasks : DisconnectReturn(d))

\* ------------------------------------------------------------- vocabulary
\* the last call of task t is over
Done(t) == call[t].pc = "idle" /\ call[t].result # "none"
\* no command is in progress
Quiet == \A t \in Tasks : call[t].pc = "idle"

\* ---------------------------------------------------------------- claims
\* C1: a call whose every attempt fails with a transient transport error runs the
\* body exactly 3 times, sleeps exactly 2 times (after the 1st and the 2nd failure)
\* and raises the 3rd failure; a call whose attempt k succeeds made exactly k
\* attempts and k-1 sleeps and returns normally.
C1_RetryCounts ==
    \A t \in Tasks :
        /\ call[t].bodyRuns <= DEFAULT_ATTEMPTS
        /\ call[t].pc = "sleeping" =>
              call[t].sleeps = call[t].fails /\ call[t].bodyRuns = call[t].fails
        /\ call[t].fails = DEFAULT_ATTEMPTS =>
              Done(t) /\ call[t].result = "raised" /\ call[t].err \in RetryErrors
        /\ (Done(t) /\ call[t].result = "raised" /\ call[t].err \in RetryErrors) =>
              /\ call[t].bodyRuns = DEFAULT_ATTEMPTS
              /\ call[t].fails = DEFAULT_ATTEMPTS
              /\ call[t].sleeps = DEFAULT_ATTEMPTS - 1
        /\ (Done(t) /\ call[t].result = "returned" /\ ~UnknownEffect(call[t].cmd)) =>
              /\ call[t].bodyRuns \in 1 .. DEFAULT_ATTEMPTS
              /\ call[t].fails = call[t].bodyRuns - 1
              /\ call[t].sleeps = call[t].bodyRuns - 1

\* one call raised after 3 failed attempts and 2 sleeps, another returned on its
\* 2nd attempt
C1_Witness ==
    \E t, u \in Tasks :
        /\ Done(t) /\ call[t].result = "raised" /\ call[t].err \in RetryErrors
        /\ call[t].bodyRuns = 3 /\ call[t].sleeps = 2
        /\ Done(u) /\ call[u].result = "returned" /\ call[u].bodyRuns = 2
        /\ call[u].sleeps = 1

\* C2: the 'device not found' error of connection establishment ends the call at
\* once, on whichever attempt it occurs: it is raised, no sleep follows it and no
\* further attempt (so no further establish_connection) is made.
C2_NotFoundNotRetried ==
    \A t \in Tasks :
        call[t].err = "BleakNotFoundError" =>
            /\ Done(t) /\ call[t].result = "raised"
            /\ call[t].sleeps = call[t].fails
            /\ call[t].bodyRuns = call[t].fails + 1

\* a call ended by 'device not found' on its first attempt, another on its third
C2_Witness ==
    \E t, u \in Tasks :
        /\ call[t].err = "BleakNotFoundError" /\ call[t].bodyRuns = 1
        /\ call[t].sleeps = 0
        /\ call[u].err = "BleakNotFoundError" /\ call[u].bodyRuns = 3

\* C3: in a burst of commands issued while disconnected, with establishment
\* succeeding and the session staying connected, establish_connection is called
\* exactly once in total: never twice, and once as soon as any command got as far
\* as connecting.
C3_SingleEstablish ==
    /\ establishCalls <= 1
    /\ (_client # "None" \/ newClient # "None") => establishCalls = 1
    /\ \A t \in Tasks :
          (call[t].pc \in {"connecting", "getservices", "writing", "sleeping"}
             \/ call[t].acked) => establishCalls = 1

\* two commands of the burst both returned on their first attempt, after one
\* establishment
C3_Witness ==
    /\ establishCalls = 1
    /\ \A t \in Tasks : Done(t) /\ call[t].acked /\ call[t].bodyRuns = 1

\* C4: a reported-state field changes only in the step in which a command's write
\* succeeds (so a command whose write fails leaves every field as it was).
C4_NoPartialEffects ==
    [][reported' # reported =>
         \E t \in Tasks : /\ call[t].pc = "writing"
                          /\ call'[t].pc = "idle"
                          /\ call'[t].result = "returned"
                          /\ call'[t].acked]_vars

\* C5: a call that returned normally had its write acknowledged in the returning
\* attempt, unless it is set_effect with an unknown name; a call whose 3 attempts
\* all failed raised.
C5_ReturnMeansWritten ==
    \A t \in Tasks :
        /\ (Done(t) /\ call[t].result = "returned") =>
              (call[t].acked \/ UnknownEffect(call[t].cmd))
        /\ call[t].acked => (Done(t) /\ call[t].result = "returned")
        /\ call[t].fails = DEFAULT_ATTEMPTS => call[t].result = "raised"

\* a call returned on its last attempt after an acknowledged write, another raised
C5_Witness ==
    \E t, u \in Tasks :
        /\ Done(t) /\ call[t].result = "returned" /\ call[t].acked
        /\ call[t].bodyRuns = DEFAULT_ATTEMPTS
        /\ Done(u) /\ call[u].result = "raised" /\ call[u].fails = DEFAULT_ATTEMPTS

\* a session end is notified in this step: a stored or a new client stops being
\* connected (the transport then calls _disconnected)
Notified ==
    \/ _client = "Live" /\ _client' = "Dead"
    \/ newClient = "Live" /\ newClient' = "Dead"
\* the link is Disconnected: the handle is released
Released == _client = "None"
\* a non-zero idle timeout, no command in progress, and the last call of every
\* caller that called ended with an acknowledged write
WrittenAndQuiet ==
    /\ _delay # 0
    /\ Quiet
    /\ \E t \in Tasks : Done(t)
    /\ \A t \in Tasks : Done(t) => call[t].acked

\* C6: with a non-zero idle timeout, after a successful write and as long as no
\* further command is issued, the link ends up Disconnected with the handle
\* released, and the flag is true when the session end of the manager's own
\* disconnect is notified.
C6_IdleDisconnect ==
    /\ WrittenAndQuiet ~> (~Quiet \/ Released)
    /\ [][\A d \in DTasks :
            (dpc[d] = "disconnecting" /\ Notified /\ WrittenAndQuiet)
               => _expected_disconnect]_vars

\* C7 as stated: in the step in which a set_rgb_color call ends, however it ends,
\* the reported effect is "off".
C7_EffectOffAfterAnyCall ==
    [][\A t \in Tasks :
         (call[t].cmd.kind = "set_rgb_color" /\ call[t].pc # "idle"
            /\ call'[t].pc = "idle") => _effect' = EFFECT_OFF]_vars

\* C7 amended: in the step in which a set_rgb_color call returns normally, the
\* reported effect is "off", whatever it was before.
C7_EffectOffAfterReturn ==
    [][\A t \in Tasks :
         (call[t].cmd.kind = "set_rgb_color" /\ call[t].pc # "idle"
            /\ call'[t].pc = "idle" /\ call'[t].result = "returned")
            => _effect' = EFFECT_OFF]_vars

\* an effect was set by one call, then set_rgb_color returned and the effect is off
C7_Witness ==
    \E t, u \in Tasks :
        /\ Done(t) /\ call[t].cmd.kind = "set_rgb_color" /\ call[t].acked
        /\ Done(u) /\ call[u].cmd.kind = "set_effect" /\ call[u].acked
        /\ _effect = EFFECT_OFF

\* C8: a step that issues set_effect with a name outside EFFECT_MAP ends the call
\* at once as a normal return after one run of the body, and changes nothing else:
\* no write, no connection attempt, no lock, no timer, no reported field, in
\* whatever connection state it is issued.
C8_UnknownEffectNoOp ==
    [][\A t \in Tasks :
         (call[t].pc = "idle" /\ call'[t] # call[t] /\ UnknownEffect(call'[t].cmd))
            => /\ call'[t].pc = "idle"
               /\ call'[t].result = "returned"
               /\ call'[t].err = "none"
               /\ ~call'[t].acked
               /\ call'[t].bodyRuns = 1
               /\ call'[t].packet = <<>>
               /\ \A u \in Tasks \ {t} : call'[u] = call[u]
               /\ UNCHANGED <<instVars, reported, lockVars, envVars, dpc>>]_vars

\* an unknown effect name was issued and returned while the session is connected
\* and the idle timer armed
C8_Witness ==
    \E t \in Tasks :
        /\ Done(t) /\ UnknownEffect(call[t].cmd) /\ call[t].result = "returned"
        /\ _client = "Live" /\ timers # {} /\ _effect # EFFECT_OFF

\* C9: a step that notifies a session end leaves every command and every
\* disconnect task where it is and calls no establish_connection; a command
\* issued, or woken for a retry, while the stored session is dropped starts no
\* write: it takes the slow path, and calls establish_connection if the lock is
\* free; and a write is only ever started on a connected session.
C9_LazyReconnect ==
    [][/\ Notified => UNCHANGED <<call, establishCalls, lockVars, timers>>
       /\ \A t \in Tasks :
            /\ (call[t].pc \in {"idle", "sleeping"} /\ call'[t] # call[t]
                  /\ _client = "Dead" /\ call'[t].pc # "idle")
                 => /\ call'[t].pc \in {"connecting", "lockwait"}
                    /\ call'[t].pc = "connecting" <=> lockHolder = 0
                    /\ call'[t].pc = "connecting" =>
                          establishCalls' = MaxEstablish \/
                          establishCalls' = establishCalls + 1
            /\ (call[t].pc # "writing" /\ call'[t].pc = "writing")
                 => _client' = "Live"]_vars

\* after an unexpected drop (the flag is false, the handle still stored) a command
\* is in establish_connection
C9_Witness ==
    /\ _client = "Dead" /\ ~_expected_disconnect
    /\ \E t \in Tasks : call[t].pc = "connecting" /\ call[t].bodyRuns = 1

\* C10: with the idle timeout 0 no timer is ever armed or referenced, no
\* disconnect task ever exists and the flag is never set: the manager never ends
\* its session.
C10_NoIdleDisconnect ==
    _delay = 0 =>
        /\ timers = {}
        /\ _disconnect_timer = 0
        /\ \A d \in DTasks : dpc[d] = "free"
        /\ ~_expected_disconnect
        /\ _client # "None" => establishCalls > 0

\* idle timeout 0, commands were written and the session is still connected
C10_Witness ==
    /\ _delay = 0
    /\ _client = "Live"
    /\ \A t \in Tasks : Done(t) /\ call[t].acked

\* clamp(round(s * 2.55), 0, 255) with the exact product s * 255 / 100 rounded to
\* the nearest integer (halves up, as in round(127.5) = 128)
RoundedSpeedByte(s) ==
    LET r == (s * 255 + 50) \div 100
    IN  IF r < 0 THEN 0 ELSE IF r > 255 THEN 255 ELSE r

\* C11: for every speed s in 0..100 the packet set_effect_speed writes is
\* 55 04 04 S with S = clamp(round(s * 2.55), 0, 255) (s = 50 gives 0x80), and S is
\* monotonic non-decreasing in s.
C11_SpeedByteRounded ==
    /\ \A t \in Tasks :
          (call[t].cmd.kind = "set_effect_speed" /\ call[t].packet # <<>>) =>
              call[t].packet = <<85, 4, 4, RoundedSpeedByte(call[t].cmd.num)>>
    /\ \A s1, s2 \in SpeedInputs : s1 <= s2 => SpeedByte(s1) <= SpeedByte(s2)

\* A connection establishment is in progress: a command is inside the connect
\* lock, awaiting establish_connection or get_services.
Establishing == {t \in Tasks : call[t].pc \in {"connecting", "getservices"}}

\* _execute_disconnect is inside the connect lock, awaiting client.disconnect().
Disconnecting == {d \in DTasks : dpc[d] = "disconnecting"}

\* The command writes that have been started and are not yet acknowledged.
WritesInFlight == {t \in Tasks : call[t].pc = "writing"}

\* C12: no write is started while the connect lock is held by _execute_disconnect
\* (or by a connection establishment): a command that finds the session connected
\* while _execute_disconnect awaits client.disconnect() does not skip the lock and
\* write.
C12_NoWriteStartedDuringDisconnect ==
    [][\A t \in Tasks :
          (call[t].pc # "writing" /\ call'[t].pc = "writing") =>
              (Disconnecting = {} /\ Establishing \subseteq {t})]_vars

\* C13: at most one connection establishment is in flight at any time, and an
\* establishment and _execute_disconnect's disconnect are never in progress
\* together: each of them runs as the holder of the connect lock.
C13_ConnectLockExcludes ==
    /\ Cardinality(Establishing) + Cardinality(Disconnecting) <= 1
    /\ \A t \in Establishing : lockHolder = t
    /\ \A d \in Disconnecting : lockHolder = d

\* an establishment is in flight while a second command and the disconnect task
\* both wait for the lock
C13_Witness ==
    /\ Establishing # {}
    /\ \E i, j \in DOMAIN lockQueue : lockQueue[i] \in Tasks /\ lockQueue[j] \in DTasks

\* the disconnect task d starts to take the session down in this step
TearsDown(d) == dpc[d] \in {"created", "lockwait"} /\ dpc'[d] = "disconnecting"

\* C14: an idle disconnect never tears down a session that was established, or
\* that served a command which reset the idle timer, after the timer whose firing
\* created the disconnect task was armed.  The firing leaves no timer armed, so
\* a timer that is armed when the task starts the teardown was armed by
\* _reset_disconnect_timer since: the session is a superseding one.
C14_NoSupersededTeardown ==
    [][\A d \in DTasks : TearsDown(d) => timers = {}]_vars

\* _execute_disconnect of task d completes in this step
Completes(d) == dpc[d] # "free" /\ dpc'[d] = "free"

\* C15: the idle timer is cancelled whenever a disconnect is executed: right after
\* _execute_disconnect completes no idle timer is armed, also when a command
\* reset the timer between the firing of the old timer and the run of the task.
C15_NoTimerAfterDisconnect ==
    [][\A d \in DTasks : Completes(d) => timers' = {}]_vars

\* C16: a disconnect initiated by the manager is always classified as expected:
\* the notification delivered while _execute_disconnect awaits
\* client.disconnect() finds the flag true.
C16_ManagerDisconnectExpected ==
    [][\A d \in DTasks :
          (dpc[d] = "disconnecting" /\ _client = "Live" /\ _client' = "Dead") =>
              DisconnectedLog = "expected"]_vars

\* C17: the transport handle is present if and only if the link is connected: in
\* every state outside the connect/disconnect critical section the stored handle
\* is non-null exactly when the session is connected, so the handle is absent
\* after an unexpected drop as well as after an idle disconnect.
C17_HandleIffConnected ==
    lockHolder = 0 => (_client # "None" <=> IsConnected(_client))

\* C18: at most one idle timer is live at a time: there is at most one scheduled
\* callback that has neither fired nor been cancelled, and it is the one
\* self._disconnect_timer refers to (so that arming the next one cancels it).
C18_OneLiveTimer ==
    /\ Cardinality(timers) <= 1
    /\ timers \subseteq {_disconnect_timer}

\* a timer is armed after every caller had a write acknowledged, and after an
\* earlier timer fired: it has been re-armed
C18_Witness ==
    /\ timers # {}
    /\ \A t \in Tasks : call[t].acked
    /\ \E d \in DTasks : dpc[d] # "free"

\* C19: a write is never issued on an absent transport handle: whenever _write
\* calls write_gatt_char the stored handle is not None, under every interleaving
\* with _execute_disconnect and with other commands.  A call on an absent handle
\* would show as the AttributeError of the lookup on None, and a write that is
\* started leaves a handle in place.
C19_WriteOnHandle ==
    /\ [](\A t \in Tasks : call[t].err # "AttributeError")
    /\ [][\A t \in Tasks :
             (call[t].pc # "writing" /\ call'[t].pc = "writing") =>
                 _client' # "None"]_vars

\* a write is in flight whose handle _execute_disconnect has meanwhile set to None
C19_Witness == \E t \in WritesInFlight : _client = "None"

\* C20: a fault-driven drop is never classified as expected: whenever the
\* transport delivers a disconnect notification that _execute_disconnect did not
\* initiate, the flag is false at that moment, also for a newly established
\* session after an earlier idle disconnect left the flag true.
C20_FaultNeverExpected ==
    [][(Notified /\ Disconnecting = {}) => DisconnectedLog = "unexpected"]_vars

====
